---- MODULE Spec2Model ----
(***************************************************************************)
(* The tokenizer / vocabulary / padding pipeline of the notebook           *)
(* Preprocessing_steps_for_LSTM.ipynb: Tokenizer(...).fit_on_texts,        *)
(* texts_to_sequences, pad_sequences and the Embedding lookup.             *)
(*                                                                         *)
(* A text is a sequence of words (the text already cut at its blanks); a   *)
(* token is a lower-cased word; an encoded sequence is a sequence of ids.  *)
(*                                                                         *)
(* Tokenizer and pad_sequences are the Keras functions the notebook        *)
(* imports; their definitions here follow what those calls do, and give    *)
(* the three outputs the notebook records (sequences, padded_sequences,    *)
(* and sequences of the tokenizer with num_words=5 and oov_token).         *)
(*                                                                         *)
(* Spec follows the library calls on generated corpora and on the example  *)
(* corpus; NotebookSpec follows the notebook's code cells, run in any      *)
(* order.                                                                  *)
(***************************************************************************)
EXTENDS Integers, Sequences, FiniteSets

VARIABLES
    texts,              \* the corpus the tokenizer was fitted on
    tokenizer,          \* the Tokenizer object (configuration, word_counts, word_index)
    ret,                \* the last library call: its arguments and what it returned
    names,              \* the notebook kernel's namespace: the names bound so far
    sequences,          \* notebook variable `sequences`
    padded_sequences,   \* notebook variable `padded_sequences`
    embedding_output,   \* notebook variable `embedding_output` (its outcome and shape)
    execution_count     \* the kernel's execution counter

vars == <<texts, tokenizer, ret, names, sequences, padded_sequences,
          embedding_output, execution_count>>

---------------------------------------------------------------------------
(* Bounds of the model *)

\* total number of words in a generated corpus
MaxWords == 3
\* largest num_words among the generated configurations
MaxNumWords == 3
\* largest maxlen among the generated pad calls
MaxMaxlen == 2
\* number of cell executions followed in the notebook
MaxExec == 9

---------------------------------------------------------------------------
(* Words, texts, corpora *)

\* The three example sentences of the notebook.
ExampleTexts ==
    << <<"This", "is", "the", "first", "sentence">>,
       <<"This", "is", "the", "second", "sentence">>,
       <<"This", "is", "the", "third", "sentence", "which", "has", "more", "words">> >>

\* The two id sequences of the padding example in the notebook's text.
DocSequences == << <<1, 2, 3>>, <<1, 2, 3, 4, 5>> >>

\* Words the generated corpora are made of ("A" and "a" are one token).
GeneralWords == {"a", "A", "b"}

\* lower=True of the Tokenizer: str.lower() of a word.
Lower(w) ==
    CASE w = "This" -> "this"
      [] w = "A" -> "a"
      [] OTHER -> w

\* text_to_word_sequence: the words of a text, lower-cased, in order.
text_to_word_sequence(text) == [i \in DOMAIN text |-> Lower(text[i])]

Range(s) == {s[i] : i \in DOMAIN s}

Max(S) == CHOOSE x \in S : \A y \in S : y <= x

Min2(a, b) == IF a <= b THEN a ELSE b

Zeros(n) == [i \in 1..n |-> 0]

\* All texts of exactly n words over GeneralWords.
RECURSIVE TextsOfLen(_)
TextsOfLen(n) ==
    IF n = 0 THEN {<<>>}
    ELSE {Append(t, w) : t \in TextsOfLen(n - 1), w \in GeneralWords}

\* All corpora (lists of non-empty texts) of exactly n words in total.
RECURSIVE CorporaOfSize(_)
CorporaOfSize(n) ==
    IF n = 0 THEN {<<>>}
    ELSE UNION {{Append(c, t) : c \in CorporaOfSize(n - k), t \in TextsOfLen(k)} : k \in 1..n}

\* The corpora a tokenizer is fitted on: every small corpus, and the notebook's.
Corpora ==
    UNION {CorporaOfSize(n) : n \in 0..MaxWords} \cup {<< <<>> >>, ExampleTexts}

\* The batch of strings given to texts_to_sequences besides the corpus itself.
ProbeTexts == { << <<"A", "b", "a">>, <<"b">>, <<>> >> }

---------------------------------------------------------------------------
(* Tokenizer *)

NoOov == ""
OovToken == "<OOV>"

\* Tokenizer(num_words=None, oov_token=None): the object before any fit.
Tokenizer(has_num_words, num_words, oov_token) ==
    [ built |-> TRUE,
      has_num_words |-> has_num_words,
      num_words |-> num_words,
      oov_token |-> oov_token,
      word_counts |-> <<>>,
      word_index |-> <<>>,
      document_count |-> 0 ]

\* No tokenizer bound yet.
NoTokenizer ==
    [ built |-> FALSE,
      has_num_words |-> FALSE,
      num_words |-> 0,
      oov_token |-> NoOov,
      word_counts |-> <<>>,
      word_index |-> <<>>,
      document_count |-> 0 ]

\* word_counts[w] += 1, or word_counts[w] = 1 for a new word (an OrderedDict:
\* a new word goes to the end).
CountWord(wc, w) ==
    IF \E i \in DOMAIN wc : wc[i].w = w
    THEN [i \in DOMAIN wc |-> IF wc[i].w = w THEN [w |-> w, n |-> wc[i].n + 1] ELSE wc[i]]
    ELSE Append(wc, [w |-> w, n |-> 1])

\* for w in seq: count it
RECURSIVE CountSeq(_, _)
CountSeq(wc, seq) ==
    IF seq = <<>> THEN wc
    ELSE CountSeq(CountWord(wc, Head(seq)), Tail(seq))

\* for text in texts: count the words of text_to_word_sequence(text)
RECURSIVE CountTexts(_, _)
CountTexts(wc, txts) ==
    IF txts = <<>> THEN wc
    ELSE CountTexts(CountSeq(wc, text_to_word_sequence(Head(txts))), Tail(txts))

\* Position of entry i after wcounts.sort(key=count, reverse=True): the sort is
\* stable, so equal counts keep their order.
SortedPosition(wc, i) ==
    1 + Cardinality({j \in DOMAIN wc :
                        \/ wc[j].n > wc[i].n
                        \/ (wc[j].n = wc[i].n /\ j < i)})

\* SortByCount leaving the words in the order they were first seen.
SortByCountUnsorted(wc) == wc

\* wcounts sorted by descending count.
SortByCount(wc) ==
    [k \in DOMAIN wc |-> wc[CHOOSE i \in DOMAIN wc : SortedPosition(wc, i) = k]]

\* sorted_voc: the oov token first when there is one, then the sorted words.
SortedVoc(oov_token, wc) ==
    LET sorted == SortByCount(wc)
        words == [k \in DOMAIN sorted |-> sorted[k].w]
    IN  IF oov_token = NoOov THEN words ELSE <<oov_token>> \o words

\* WordIndex numbering from 0.
WordIndexFromZero(sorted_voc) ==
    [w \in Range(sorted_voc) |-> Max({i \in DOMAIN sorted_voc : sorted_voc[i] = w}) - 1]

\* WordIndex numbering from 2.
WordIndexFromTwo(sorted_voc) ==
    [w \in Range(sorted_voc) |-> Max({i \in DOMAIN sorted_voc : sorted_voc[i] = w}) + 1]

\* dict(zip(sorted_voc, range(1, len(sorted_voc) + 1))): index 0 is never given.
WordIndex(sorted_voc) ==
    [w \in Range(sorted_voc) |-> Max({i \in DOMAIN sorted_voc : sorted_voc[i] = w})]

\* tokenizer.fit_on_texts(texts)
fit_on_texts(tok, txts) ==
    LET wc == CountTexts(tok.word_counts, txts)
    IN  [tok EXCEPT !.word_counts = wc,
                    !.document_count = tok.document_count + Len(txts),
                    !.word_index = WordIndex(SortedVoc(tok.oov_token, wc))]

\* EncodeWord keeping the word whose index is num_words itself.
EncodeWordOffByOne(tok, w) ==
    LET capped == tok.has_num_words /\ tok.num_words # 0
        oov == IF tok.oov_token # NoOov THEN <<tok.word_index[tok.oov_token]>> ELSE <<>>
    IN  IF w \in DOMAIN tok.word_index
        THEN IF capped /\ tok.word_index[w] > tok.num_words THEN oov
             ELSE <<tok.word_index[w]>>
        ELSE oov

\* EncodeWord dropping every word without an id, OOV token or not.
EncodeWordDropping(tok, w) ==
    LET capped == tok.has_num_words /\ tok.num_words # 0
    IN  IF w \in DOMAIN tok.word_index
        THEN IF capped /\ tok.word_index[w] >= tok.num_words THEN <<>>
             ELSE <<tok.word_index[w]>>
        ELSE <<>>

\* What one word adds to the sequence (the loop body of texts_to_sequences):
\* i = word_index.get(w); a known word gives i, unless num_words is set (and not
\* 0) and i >= num_words; a word that gives no id of its own gives the oov
\* token's index when there is an oov token, and nothing otherwise.
EncodeWord(tok, w) ==
    LET capped == tok.has_num_words /\ tok.num_words # 0
        oov == IF tok.oov_token # NoOov THEN <<tok.word_index[tok.oov_token]>> ELSE <<>>
    IN  IF w \in DOMAIN tok.word_index
        THEN IF capped /\ tok.word_index[w] >= tok.num_words THEN oov
             ELSE <<tok.word_index[w]>>
        ELSE oov

\* vect: the ids of the words of one text, in order.
RECURSIVE EncodeWords(_, _)
EncodeWords(tok, seq) ==
    IF seq = <<>> THEN <<>>
    ELSE EncodeWord(tok, Head(seq)) \o EncodeWords(tok, Tail(seq))

\* tokenizer.texts_to_sequences(texts): one id sequence per text.
texts_to_sequences(tok, txts) ==
    [i \in DOMAIN txts |-> EncodeWords(tok, text_to_word_sequence(txts[i]))]

---------------------------------------------------------------------------
(* pad_sequences *)

\* The truncating argument left out by the caller.
Unset == "unset"

\* DefaultTruncating with 'post' as the side used when the caller gives none.
DefaultTruncatingPost(truncating) == IF truncating = Unset THEN "post" ELSE truncating

\* truncating='pre' is what pad_sequences uses when the caller gives none.
DefaultTruncating(truncating) == IF truncating = Unset THEN "pre" ELSE truncating

\* s[-maxlen:] (Python: -0 is 0, so maxlen = 0 keeps all of s).
LastSlice(s, maxlen) ==
    IF maxlen = 0 \/ maxlen >= Len(s) THEN s
    ELSE SubSeq(s, Len(s) - maxlen + 1, Len(s))

\* s[:maxlen]
FirstSlice(s, maxlen) == SubSeq(s, 1, Min2(maxlen, Len(s)))

\* trunc = s[-maxlen:] or s[:maxlen]
Trunc(s, maxlen, truncating) ==
    IF DefaultTruncating(truncating) = "pre" THEN LastSlice(s, maxlen)
    ELSE FirstSlice(s, maxlen)

\* pad_raises refusing a sequence longer than maxlen instead of cutting it.
pad_raises_on_long(seqs, maxlen, truncating) ==
    \/ maxlen < 0
    \/ \E i \in DOMAIN seqs : Len(seqs[i]) > maxlen

\* pad_sequences raises ValueError: the array cannot be allocated (maxlen < 0), or
\* a row of maxlen = 0 cells is given the whole of a non-empty sequence.
pad_raises(seqs, maxlen, truncating) ==
    \/ maxlen < 0
    \/ \E i \in DOMAIN seqs :
          /\ seqs[i] # <<>>
          /\ Len(Trunc(seqs[i], maxlen, truncating)) > maxlen

\* PadRow without the cut to maxlen.
PadRowUntruncated(s, maxlen, padding, truncating) ==
    IF padding = "post" THEN s \o Zeros(maxlen - Len(s))
    ELSE Zeros(maxlen - Len(s)) \o s

\* PadRow filling the other side.
PadRowSwapped(s, maxlen, padding, truncating) ==
    LET trunc == Trunc(s, maxlen, truncating)
        n == Len(trunc)
    IN  IF padding = "pre" THEN trunc \o Zeros(maxlen - n)
        ELSE Zeros(maxlen - n) \o trunc

\* One row of the array: filled with 0, then x[idx, :len(trunc)] = trunc (post)
\* or x[idx, -len(trunc):] = trunc (pre). An empty sequence leaves the row as it is.
PadRow(s, maxlen, padding, truncating) ==
    LET trunc == Trunc(s, maxlen, truncating)
        n == Len(trunc)
    IN  IF s = <<>> THEN Zeros(maxlen)
        ELSE IF padding = "post" THEN trunc \o Zeros(maxlen - n)
        ELSE Zeros(maxlen - n) \o trunc

\* pad_sequences(sequences, maxlen=maxlen, padding=padding, truncating=truncating)
pad_sequences(seqs, maxlen, padding, truncating) ==
    [i \in DOMAIN seqs |-> PadRow(seqs[i], maxlen, padding, truncating)]

---------------------------------------------------------------------------
(* The library calls: build a tokenizer, encode, pad *)

\* maxlen=7 of the notebook's pad_sequences call
NotebookMaxlen == 7
\* num_words=5 of the notebook's second Tokenizer
NotebookNumWords == 5

\* The num_words arguments tried: none, and -1 .. MaxNumWords and the notebook's.
NumWordsArgs ==
    {[has |-> FALSE, n |-> 0]}
        \cup {[has |-> TRUE, n |-> k] : k \in (-1 .. MaxNumWords) \cup {NotebookNumWords}}

OovArgs == {NoOov, OovToken}

MaxlenArgs == (-1 .. MaxMaxlen) \cup {NotebookMaxlen}

PaddingArgs == {"pre", "post"}

TruncatingArgs == {Unset, "pre", "post"}

NoCall == [op |-> "none"]

Init ==
    /\ texts = <<>>
    /\ tokenizer = NoTokenizer
    /\ ret = NoCall
    /\ names = {}
    /\ sequences = <<>>
    /\ padded_sequences = <<>>
    /\ embedding_output = [outcome |-> "none", shape |-> <<>>, rows |-> <<>>]
    /\ execution_count = 0

NotebookVars == <<names, sequences, padded_sequences, embedding_output, execution_count>>

\* tokenizer = Tokenizer(num_words=..., oov_token=...); tokenizer.fit_on_texts(corpus)
Build(corpus, nw, oov) ==
    /\ ~tokenizer.built
    /\ texts' = corpus
    /\ tokenizer' = fit_on_texts(Tokenizer(nw.has, nw.n, oov), corpus)
    /\ ret' = [op |-> "build", error |-> "none"]
    /\ UNCHANGED NotebookVars

\* tokenizer.texts_to_sequences(input)
Encode(input) ==
    /\ tokenizer.built
    /\ ret' = [op |-> "encode", error |-> "none", input |-> input,
               out |-> texts_to_sequences(tokenizer, input)]
    /\ UNCHANGED <<texts, tokenizer>>
    /\ UNCHANGED NotebookVars

\* What a pad_sequences call reports back.
PadCall(source, seqs, maxlen, padding, truncating) ==
    [ op |-> "pad", source |-> source, input |-> seqs, maxlen |-> maxlen,
      padding |-> padding, truncating |-> truncating,
      error |-> IF pad_raises(seqs, maxlen, truncating) THEN "ValueError" ELSE "none",
      out |-> IF pad_raises(seqs, maxlen, truncating) THEN <<>>
              ELSE pad_sequences(seqs, maxlen, padding, truncating) ]

\* The sequences a caller has at hand to pad: what the last texts_to_sequences
\* call returned, or, before any tokenizer exists, the two sequences of the
\* notebook's padding example.
PadInputs ==
    IF ret.op = "encode" THEN {[source |-> "encoded", seqs |-> ret.out]}
    ELSE IF ret.op = "none" THEN {[source |-> "literal", seqs |-> DocSequences]}
    ELSE {}

\* pad_sequences(sequences, maxlen=..., padding=..., [truncating=...])
Pad(maxlen, padding, truncating) ==
    /\ \E in \in PadInputs :
          ret' = PadCall(in.source, in.seqs, maxlen, padding, truncating)
    /\ UNCHANGED <<texts, tokenizer>>
    /\ UNCHANGED NotebookVars

Next ==
    \/ /\ ~tokenizer.built
       /\ \E corpus \in Corpora, nw \in NumWordsArgs, oov \in OovArgs : Build(corpus, nw, oov)
    \/ /\ tokenizer.built
       /\ \E input \in {texts} \cup ProbeTexts : Encode(input)
    \/ \E maxlen \in MaxlenArgs, padding \in PaddingArgs, truncating \in TruncatingArgs :
          Pad(maxlen, padding, truncating)

Spec == Init /\ [][Next]_vars

---------------------------------------------------------------------------
(* The notebook: its code cells, run in any order, any number of times *)

\* vocab_size = 12, the Embedding layer's input_dim
vocab_size == 12
\* embedding_dim = 3, the Embedding layer's output_dim
embedding_dim == 3

\* The kernel runs one cell: the counter goes up.
Executed ==
    /\ execution_count < MaxExec
    /\ execution_count' = execution_count + 1

\* texts = [...]; tokenizer = Tokenizer(); tokenizer.fit_on_texts(texts)
CellFit ==
    /\ Executed
    /\ texts' = ExampleTexts
    /\ tokenizer' = fit_on_texts(Tokenizer(FALSE, 0, NoOov), ExampleTexts)
    /\ names' = names \cup {"texts", "tokenizer"}
    /\ UNCHANGED <<ret, sequences, padded_sequences, embedding_output>>

\* CellEncode fitting the tokenizer on the texts once more before encoding.
CellEncodeRefit ==
    /\ Executed
    /\ {"texts", "tokenizer"} \subseteq names
    /\ tokenizer' = fit_on_texts(tokenizer, texts)
    /\ sequences' = texts_to_sequences(tokenizer', texts)
    /\ names' = names \cup {"sequences"}
    /\ UNCHANGED <<texts, ret, padded_sequences, embedding_output>>

\* sequences = tokenizer.texts_to_sequences(texts)
CellEncode ==
    /\ Executed
    /\ {"texts", "tokenizer"} \subseteq names
    /\ sequences' = texts_to_sequences(tokenizer, texts)
    /\ names' = names \cup {"sequences"}
    /\ UNCHANGED <<texts, tokenizer, ret, padded_sequences, embedding_output>>

\* padded_sequences = pad_sequences(sequences, maxlen=7, padding='post')
CellPad ==
    /\ Executed
    /\ "sequences" \in names
    /\ ~pad_raises(sequences, NotebookMaxlen, Unset)
    /\ padded_sequences' = pad_sequences(sequences, NotebookMaxlen, "post", Unset)
    /\ names' = names \cup {"padded_sequences"}
    /\ UNCHANGED <<texts, tokenizer, ret, sequences, embedding_output>>

\* The cells that only show a value: sequences, padded_sequences, padded_sequences.shape
CellShow ==
    /\ Executed
    /\ {"sequences", "padded_sequences"} \cap names # {}
    /\ UNCHANGED <<texts, tokenizer, ret, names, sequences, padded_sequences,
                   embedding_output>>

\* Every id is a row of the Embedding table: 0 <= id < input_dim.
ValidIndices(batch, input_dim) ==
    \A i \in DOMAIN batch : \A j \in DOMAIN batch[i] :
        batch[i][j] >= 0 /\ batch[i][j] < input_dim

\* embedding_layer = Embedding(input_dim=vocab_size, output_dim=embedding_dim, ...)
\* embedding_output = embedding_layer(padded_sequences): each id picks its row of
\* the table (rows), one vector of embedding_dim numbers per id.
CellEmbedding ==
    /\ Executed
    /\ "padded_sequences" \in names
    /\ IF ValidIndices(padded_sequences, vocab_size)
       THEN /\ embedding_output' =
                  [outcome |-> "ok",
                   shape |-> <<Len(padded_sequences), NotebookMaxlen, embedding_dim>>,
                   rows |-> padded_sequences]
            /\ names' = names \cup {"embedding_output"}
       ELSE /\ embedding_output' = [outcome |-> "InvalidArgumentError", shape |-> <<>>, rows |-> <<>>]
            /\ names' = names
    /\ UNCHANGED <<texts, tokenizer, ret, sequences, padded_sequences>>

\* texts = [...]; tokenizer = Tokenizer(num_words=5, oov_token='<OOV>');
\* tokenizer.fit_on_texts(texts); sequences = tokenizer.texts_to_sequences(texts)
CellOov ==
    /\ Executed
    /\ texts' = ExampleTexts
    /\ tokenizer' = fit_on_texts(Tokenizer(TRUE, NotebookNumWords, OovToken), ExampleTexts)
    /\ sequences' = texts_to_sequences(tokenizer', texts')
    /\ names' = names \cup {"texts", "tokenizer", "sequences"}
    /\ UNCHANGED <<ret, padded_sequences, embedding_output>>

NotebookNext ==
    \/ CellFit
    \/ CellEncode
    \/ CellPad
    \/ CellShow
    \/ CellEmbedding
    \/ CellOov

NotebookSpec == Init /\ [][NotebookNext]_vars

---------------------------------------------------------------------------
(* Properties of pad_sequences *)

\* The last call was a pad_sequences call with a positive maxlen that returned.
Padded == ret.op = "pad" /\ ret.maxlen >= 1 /\ ret.error = "none"

\* out is p zeros, then the n ids of s from position a on, then q zeros.
IsRunOf(out, s, p, a, n, q) ==
    /\ a >= 1 /\ a + n - 1 <= Len(s)
    /\ out = Zeros(p) \o SubSeq(s, a, a + n - 1) \o Zeros(q)

\* C1: every pad_sequences call with maxlen >= 1 returns one row per input
\* sequence, each of exactly maxlen ids (a rectangular batch), and each row is
\* zeros around a contiguous run of min(len, maxlen) ids of its input sequence.
C1_PadShape ==
    Padded =>
        /\ Len(ret.out) = Len(ret.input)
        /\ \A i \in DOMAIN ret.out :
              LET s == ret.input[i]
                  n == Min2(Len(s), ret.maxlen)
              IN  /\ Len(ret.out[i]) = ret.maxlen
                  /\ \E p \in 0..ret.maxlen, a \in 1..(Len(s) + 1) :
                        IsRunOf(ret.out[i], s, p, a, n, ret.maxlen - n - p)

\* A batch with an empty, a short and a too long sequence has been padded.
C1_Witness ==
    /\ Padded
    /\ \E i \in DOMAIN ret.input : ret.input[i] = <<>>
    /\ \E i \in DOMAIN ret.input : Len(ret.input[i]) > ret.maxlen
    /\ \E i \in DOMAIN ret.input : ret.input[i] # <<>> /\ Len(ret.input[i]) < ret.maxlen

KeptIds(s, maxlen, side) ==
    IF side = "post" THEN SubSeq(s, 1, maxlen)
    ELSE SubSeq(s, Len(s) - maxlen + 1, Len(s))

\* The third example sentence as the first tokenizer of the notebook encodes it.
ThirdSequence == <<1, 2, 3, 7, 4, 8, 9, 10, 11>>

\* C3 as stated: a sequence longer than maxlen keeps its first maxlen ids with
\* truncating='post' and also when the caller gives no truncating side, its last
\* maxlen ids with truncating='pre'; the 9-id third sentence keeps its first 7.
C3_TruncationAsStated ==
    Padded =>
        /\ \A i \in DOMAIN ret.input :
              Len(ret.input[i]) > ret.maxlen =>
                  ret.out[i] = KeptIds(ret.input[i], ret.maxlen,
                                       IF ret.truncating = "pre" THEN "pre" ELSE "post")
        /\ \A i \in DOMAIN ret.input :
              (/\ ret.input[i] = ThirdSequence
               /\ ret.maxlen = 7 /\ ret.padding = "post" /\ ret.truncating = Unset)
                  => ret.out[i] = <<1, 2, 3, 7, 4, 8, 9>>

\* C3: a sequence longer than maxlen keeps its first maxlen ids with
\* truncating='post', and its last maxlen ids with truncating='pre' and also when
\* the caller gives no truncating side; the 9-id third sentence, padded with
\* maxlen=7, padding='post', keeps its last 7 ids.
C3_Truncation ==
    Padded =>
        /\ \A i \in DOMAIN ret.input :
              Len(ret.input[i]) > ret.maxlen =>
                  ret.out[i] = KeptIds(ret.input[i], ret.maxlen,
                                       IF ret.truncating = "post" THEN "post" ELSE "pre")
        /\ \A i \in DOMAIN ret.input :
              (/\ ret.input[i] = ThirdSequence
               /\ ret.maxlen = 7 /\ ret.padding = "post" /\ ret.truncating = Unset)
                  => ret.out[i] = <<3, 7, 4, 8, 9, 10, 11>>

\* The notebook's call: the encoded example sentences padded with maxlen=7,
\* padding='post' and no truncating side.
C3_Witness ==
    /\ Padded
    /\ ret.source = "encoded" /\ texts = ExampleTexts
    /\ ret.maxlen = 7 /\ ret.padding = "post" /\ ret.truncating = Unset
    /\ Len(ret.input) = 3 /\ ret.input[3] = ThirdSequence

---------------------------------------------------------------------------
(* The corpus, counted directly *)

\* The places <<i, j>> of the corpus where token t stands.
Places(t, txts) ==
    {<<i, j>> \in UNION {{<<i, j>> : j \in DOMAIN txts[i]} : i \in DOMAIN txts} :
        Lower(txts[i][j]) = t}

\* The distinct tokens of the corpus.
CorpusTokens(txts) == UNION {{Lower(txts[i][j]) : j \in DOMAIN txts[i]} : i \in DOMAIN txts}

\* How often t occurs in the whole corpus.
Occurrences(t, txts) == Cardinality(Places(t, txts))

Before(x, y) == x[1] < y[1] \/ (x[1] = y[1] /\ x[2] < y[2])

\* a first appears earlier in the corpus than b.
FirstSeenEarlier(a, b, txts) ==
    \E x \in Places(a, txts) : \A y \in Places(b, txts) : Before(x, y)

\* a comes before b by descending frequency, ties broken by first appearance.
Ahead(a, b, txts) ==
    \/ Occurrences(a, txts) > Occurrences(b, txts)
    \/ /\ Occurrences(a, txts) = Occurrences(b, txts)
       /\ FirstSeenEarlier(a, b, txts)

\* 1 for the most frequent token of the corpus, 2 for the next, ...
FrequencyRank(t, txts) ==
    1 + Cardinality({u \in CorpusTokens(txts) : Ahead(u, t, txts)})

HasOov == tokenizer.oov_token # NoOov

\* The tokens of the vocabulary other than the OOV marker.
RealTokens == DOMAIN tokenizer.word_index \ {OovToken}

\* The lowest id a real token can have.
FirstRealId == IF HasOov THEN 2 ELSE 1

\* A valid configuration: num_words absent, or at least 1.
ValidNumWords == tokenizer.has_num_words => tokenizer.num_words >= 1

---------------------------------------------------------------------------
(* Properties of the vocabulary *)

C6_FrequencyOrder ==
    tokenizer.built =>
        LET wi == tokenizer.word_index
        IN  /\ RealTokens = CorpusTokens(texts)
            /\ \A a, b \in RealTokens : (wi[a] < wi[b]) <=> Ahead(a, b, texts)
            /\ (texts = ExampleTexts /\ ~HasOov) =>
                  wi = [ this |-> 1, is |-> 2, the |-> 3, sentence |-> 4, first |-> 5,
                         second |-> 6, third |-> 7, which |-> 8, has |-> 9,
                         more |-> 10, words |-> 11 ]
            /\ (/\ texts = ExampleTexts /\ ~HasOov /\ ~tokenizer.has_num_words
                /\ ret.op = "encode" /\ ret.input = ExampleTexts) =>
                  ret.out = << <<1, 2, 3, 5, 4>>, <<1, 2, 3, 6, 4>>, ThirdSequence >>

\* A token first seen later than another has the lower id, being more frequent.
C6_Witness ==
    /\ tokenizer.built
    /\ \E a, b \in RealTokens :
          /\ FirstSeenEarlier(b, a, texts)
          /\ Occurrences(a, texts) > Occurrences(b, texts)
          /\ tokenizer.word_index[a] < tokenizer.word_index[b]

---------------------------------------------------------------------------
(* Properties of texts_to_sequences *)

\* The last call was a texts_to_sequences call.
Encoded == ret.op = "encode"

\* The ids an OOV-configured tokenizer with num_words = n gives the words of the
\* encoded texts, when the `kept` most frequent tokens of the corpus keep their
\* ids 2 .. kept + 1 and every other word becomes the OOV id 1.
EncodesKeeping(kept) ==
    /\ tokenizer.word_index[OovToken] = 1
    /\ \A i \in DOMAIN ret.input :
          /\ Len(ret.out[i]) = Len(ret.input[i])
          /\ \A j \in DOMAIN ret.input[i] :
                LET t == Lower(ret.input[i][j])
                IN  ret.out[i][j] =
                        IF t \in CorpusTokens(texts) /\ FrequencyRank(t, texts) <= kept
                        THEN FrequencyRank(t, texts) + 1
                        ELSE 1

\* A tokenizer with an OOV token and num_words >= 1 has encoded.
CappedWithOov ==
    /\ Encoded /\ HasOov
    /\ tokenizer.has_num_words /\ tokenizer.num_words >= 1

\* The notebook's second tokenizer has encoded the example corpus.
ExampleCappedWithOov ==
    /\ CappedWithOov
    /\ texts = ExampleTexts /\ ret.input = ExampleTexts
    /\ tokenizer.num_words = NotebookNumWords

HasId(w) ==
    /\ w \in RealTokens
    /\ tokenizer.has_num_words => tokenizer.word_index[w] < tokenizer.num_words

---------------------------------------------------------------------------
(* The vocabulary under the notebook's cells *)

\* sequences as the notebook shows it after its first and after its last cell.
FirstSequences == << <<1, 2, 3, 5, 4>>, <<1, 2, 3, 6, 4>>, ThirdSequence >>
SecondSequences ==
    << <<2, 3, 4, 1, 1>>, <<2, 3, 4, 1, 1>>, <<2, 3, 4, 1, 1, 1, 1, 1, 1>> >>

NotebookEmbeddingValid ==
    /\ embedding_output.outcome # "InvalidArgumentError"
    /\ "padded_sequences" \in names => ValidIndices(padded_sequences, vocab_size)

---------------------------------------------------------------------------
(* Failures *)

---------------------------------------------------------------------------
(* The ids that reach the Embedding lookup *)

\* Encoded sequences have been padded, by a tokenizer with a valid num_words.
PaddedEncoded == Padded /\ ret.source = "encoded" /\ ValidNumWords

\* The number of distinct corpus tokens, plus 1 with an OOV token.
VocabularySize == Cardinality(CorpusTokens(texts)) + (IF HasOov THEN 1 ELSE 0)

\* The tokenizer is one of the notebook's two, fitted on the example corpus.
NotebookTokenizer ==
    /\ texts = ExampleTexts
    /\ \/ ~tokenizer.has_num_words /\ ~HasOov
       \/ tokenizer.has_num_words /\ tokenizer.num_words = NotebookNumWords /\ HasOov

PaddedIds == UNION {Range(ret.out[i]) : i \in DOMAIN ret.out}

====
